---- MODULE Spec2Model ----
(***************************************************************************)
(* A model of the Curator / option_bot data pipeline:                      *)
(*   - PolygonPaginator (src/option_bot/polygon.py): the rate-limited,     *)
(*     cursor-following query_all and its sleep computation;               *)
(*   - the pool downloaders and the quote chunking                         *)
(*     (src/curator/data_pipeline/download.py, src/option_bot/             *)
(*     orchestrator.py);                                                   *)
(*   - the stage orchestrator import_all / import_partial                  *)
(*     (src/option_bot/data_pipeline/orchestrator.py).                     *)
(*   - the per-ticker tasks and batch functions of the legacy              *)
(*     orchestrator (src/option_bot/orchestrator.py) and                   *)
(*     download_options_contracts (download.py).                           *)
(* Each part has its own specification (SpecSleep, SpecPag, SpecDl,        *)
(* SpecOrch, SpecTask); the variables of the other parts stay at their     *)
(* initial values.                                                         *)
(***************************************************************************)
EXTENDS Integers, Sequences, FiniteSets, TLC

VARIABLES
    \* ---- PolygonPaginator instance (polygon.py:24-27) and the wall clock
    query_count,      \* self.query_count
    query_time_log,   \* self.query_time_log : Seq([request_id, query_timestamp])
    results,          \* self.results        : Seq(page body)
    now,              \* time.time(), in ticks of 1/TimeRes second
    \* ---- one query_all call chain per caller
    frame,            \* [Chains -> [pc, url, payload, overload]] : the innermost query_all frame
    resp,             \* [Chains -> response of the frame's request]
    hist,             \* [Chains -> bookkeeping of the chain's current top-level call]
    calls,            \* number of top-level query_all calls made so far
    since_sleep,      \* requests recorded since the last completed sleep (or construction)
    timeline,         \* the latest sleeps started and ended and requests issued on the
                      \* instance, by every chain, in order
    \* ---- _api_sleep_time applied to a drawn log
    sleep_out,        \* [done, value] : the value _api_sleep_time returned
    \* ---- the pool downloaders and download_options_quotes
    dl,               \* the api_pool_downloader / api_quote_downloader invocation in progress
    quotes,           \* the download_options_quotes invocation in progress
    runs,             \* number of top-level downloader invocations made so far
    \* ---- the stage orchestrator, import_all / import_partial
    orch,             \* the invocation: its arguments, locals, position and awaited call
    trace,            \* the calls it made and their outcomes, in order
    \* ---- the batch functions and per-ticker tasks
    rm,               \* the remove_tickers_from_universe invocation
    ct,               \* the download_options_contracts / fetch_options_contracts invocation
    add,              \* the add_tickers_to_universe invocation
    task,             \* the fetch_options_prices / fetch_stock_prices /
                      \* import_tickers_and_contracts_process invocation
    jobs              \* number of these invocations made so far

pagVars   == <<query_count, query_time_log, results, now, frame, resp, hist, calls, since_sleep,
               timeline>>
sleepVars == <<sleep_out>>
dlVars    == <<dl, quotes, runs>>
orchVars  == <<orch, trace>>
taskVars  == <<rm, ct, add, task, jobs>>
vars      == <<pagVars, sleepVars, dlVars, orchVars, taskVars>>

\* what the actions of one part leave alone
notPag   == <<sleepVars, dlVars, orchVars, taskVars>>
notSleep == <<pagVars, dlVars, orchVars, taskVars>>
notDl    == <<pagVars, sleepVars, orchVars, taskVars>>
notOrch  == <<pagVars, sleepVars, dlVars, taskVars>>
notTask  == <<pagVars, sleepVars, dlVars, orchVars>>

-----------------------------------------------------------------------------
(* Bounds of the model *)

TimeRes   == 2      \* clock ticks per second
MaxLogLen == 4      \* longest request log drawn for _api_sleep_time
MaxCalls  == 2      \* top-level query_all calls on the instance
MaxPages  == 3      \* longest cursor chain the endpoint serves
Max429    == 1      \* most 429 answers within one top-level call
MaxStageId == 7     \* largest stage id a caller puts in `partial` (6 stages exist)
MaxArgs   == 2      \* most request descriptors generate_request_args returns
MaxRuns   == 1      \* top-level downloader invocations
MaxTickers == 2     \* longest ticker list given to a batch function
MaxBatches == 2     \* most cleaned batches one fetch yields
MaxJobs   == 1      \* batch function and task invocations

(* Program constants *)

MAX_QUERY_PER_MINUTE == 4
FullWindow           == 60
BATCH_SIZE_OTICKERS  == 1000

-----------------------------------------------------------------------------
(* Helpers *)

Last(s) == s[Len(s)]

\* math.ceil(n / d) for an integer n and d > 0
CeilDiv(n, d) == -((-n) \div d)

\* datetime.fromtimestamp(ts): a POSIX timestamp (here in ticks) to a datetime,
\* which has microsecond resolution (rounded to the nearest microsecond)
timestamp_to_datetime(ts) == (2 * ts * 1000000 + TimeRes) \div (2 * TimeRes)

\* (b - a).total_seconds() followed by math.ceil
CeilTotalSeconds(a, b) == CeilDiv(b - a, 1000000)

\* the timeline t with the event e added. It is kept from the earlier of: the
\* first of the latest MAX_QUERY_PER_MINUTE + 1 requests, and the start of the
\* oldest sleep that had not ended in t; what is older is forgotten
Recorded(t, e) ==
    LET full     == Append(t, e)
        reqs     == {k \in 1..Len(full) : full[k].ev = "request"}
        window   == {k \in reqs : Cardinality({r \in reqs : r >= k}) <= MAX_QUERY_PER_MINUTE + 1}
        pending  == {j \in 1..Len(t) :
                        /\ t[j].ev = "sleep_start"
                        /\ \A m \in (j + 1)..Len(t) : t[m].chain # t[j].chain}
        keep     == window \cup pending \cup {Len(full)}
        start    == CHOOSE k \in keep : \A m \in keep : k <= m
    IN  SubSeq(full, start, Len(full))

-----------------------------------------------------------------------------
(* PolygonPaginator._api_sleep_time, polygon.py:29-36 *)

\* a plausible slip: the threshold of the adaptive branch off by one
api_sleep_time_off_by_one(log) ==
    IF Len(log) > 3
    THEN LET diff == CeilTotalSeconds(timestamp_to_datetime(log[1].query_timestamp),
                                      timestamp_to_datetime(Last(log).query_timestamp))
         IN  IF diff < FullWindow THEN diff ELSE FullWindow
    ELSE FullWindow

api_sleep_time(log) ==
    LET sleep_time == FullWindow IN
    IF Len(log) > 2
    THEN LET a    == timestamp_to_datetime(log[1].query_timestamp)
             b    == timestamp_to_datetime(Last(log).query_timestamp)
             diff == CeilTotalSeconds(a, b)
         IN  IF diff < sleep_time THEN diff ELSE sleep_time
    ELSE sleep_time

-----------------------------------------------------------------------------
(* States of the parts that a specification leaves alone *)

Chains == {1, 2}

NoResp  == [status_code |-> 0, has_next |-> FALSE]
NoFrame == [pc |-> "idle", url |-> 0, payload |-> "none", overload |-> FALSE]
NoHist  == [start_len |-> 0, reqs |-> 0, all200 |-> TRUE, n429 |-> 0,
            slept |-> FALSE, entry_since |-> 0, sleeps_since_req |-> 0,
            sleep_dur |-> 0, sleeps |-> 0, len_at_req |-> 0, prev |-> [url |-> 0, payload |-> "none", status_code |-> 0],
            prev_log |-> <<>>]

PagParked ==
    /\ query_count = 0
    /\ query_time_log = <<>>
    /\ results = <<>>
    /\ now = 0
    /\ frame = [c \in Chains |-> NoFrame]
    /\ resp = [c \in Chains |-> NoResp]
    /\ hist = [c \in Chains |-> NoHist]
    /\ calls = 0
    /\ since_sleep = 0
    /\ timeline = <<>>

SleepParked == sleep_out = [done |-> FALSE, value |-> 0]

NoDl == [fn |-> "none", pc |-> "idle", args_data |-> <<>>, n_args |-> 0, done |-> 0,
         pool_open |-> 0, pools_created |-> 0, invoked |-> 0]

NoQuotes == [pc |-> "idle", ticker |-> "none", o_tickers |-> <<>>, batch_o_tickers |-> <<>>,
             i |-> 0, chunks |-> <<>>]

DlParked ==
    /\ dl = NoDl
    /\ quotes = NoQuotes
    /\ runs = 0

None == [kind |-> "None", empty |-> TRUE]

NoAwait == [op |-> "none", stage |-> 0, arg |-> None, target |-> "none"]

NoOrch == [fn |-> "none", status |-> "idle", pc |-> 0, phase |-> "test",
           partial |-> <<>>, all_ |-> TRUE, ticker_lookup |-> None, o_tickers |-> None,
           awaited |-> NoAwait, after |-> [pc |-> 0, phase |-> "test"]]

OrchParked ==
    /\ orch = NoOrch
    /\ trace = <<>>

NoRm == [pc |-> "idle", tickers |-> <<>>, i |-> 0, attempted |-> <<>>, deleted |-> <<>>,
         failed |-> <<>>]

\* an argument left at its default None
NoneList == [given |-> FALSE, items |-> <<>>]
NoneDict == [given |-> FALSE, keys |-> {}]

NoCt == [fn |-> "none", pc |-> "idle", tickers |-> NoneList, ticker_id_lookup |-> NoneDict,
         args_tickers |-> NoneList, args_lookup |-> NoneDict,
         requested |-> <<>>, lookups |-> 0, resolved |-> {}, constructed |-> FALSE,
         dispatched |-> FALSE, error |-> "none"]

NoAdd == [pc |-> "idle", n |-> 0, ids |-> 0, dispatched |-> <<>>, error |-> "none"]

NoTask == [fn |-> "none", pc |-> "idle", ticker_id |-> FALSE, batches |-> 0, written |-> 0,
           events |-> <<>>, exc |-> "none"]

TaskParked ==
    /\ rm = NoRm
    /\ ct = NoCt
    /\ add = NoAdd
    /\ task = NoTask
    /\ jobs = 0

-----------------------------------------------------------------------------
(* SpecSleep: _api_sleep_time applied to every small request log *)

\* seconds at which a request may have been stamped; with the tick fractions
\* they give spans below, at and above the 60 second window, and of 5 seconds
StampSeconds == {0, 5, 60, 61}

Stamps == {s * TimeRes + f : s \in StampSeconds, f \in 0..(TimeRes - 1)}

LogEntry(ts) == [request_id |-> 0, query_timestamp |-> ts]

InitSleep ==
    /\ query_count = 0
    /\ \E n \in 0..MaxLogLen :
           query_time_log \in [1..n -> {LogEntry(ts) : ts \in Stamps}]
    /\ results = <<>>
    /\ now = 0
    /\ frame = [c \in Chains |-> NoFrame]
    /\ resp = [c \in Chains |-> NoResp]
    /\ hist = [c \in Chains |-> NoHist]
    /\ calls = 0
    /\ since_sleep = 0
    /\ timeline = <<>>
    /\ SleepParked
    /\ DlParked
    /\ OrchParked
    /\ TaskParked

SleepTimeCall ==
    /\ ~sleep_out.done
    /\ sleep_out' = [done |-> TRUE, value |-> api_sleep_time(query_time_log)]
    /\ UNCHANGED notSleep

NextSleep == SleepTimeCall

SpecSleep == InitSleep /\ [][NextSleep]_vars

\* C2: _api_sleep_time returns 60 for a log of fewer than 3 entries, and
\* otherwise the lesser of 60 and ceil(last timestamp - first timestamp),
\* the difference taken in seconds.
C2_AdaptiveSleep ==
    sleep_out.done =>
        IF Len(query_time_log) < 3
        THEN sleep_out.value = 60
        ELSE LET span == CeilDiv(Last(query_time_log).query_timestamp
                                   - query_time_log[1].query_timestamp, TimeRes)
             IN  sleep_out.value = (IF span < 60 THEN span ELSE 60)

\* a log of 3 or more entries spanning exactly 5 seconds was given, and 5 came out
C2_Witness ==
    /\ sleep_out.done
    /\ Len(query_time_log) >= 3
    /\ Last(query_time_log).query_timestamp - query_time_log[1].query_timestamp = 5 * TimeRes
    /\ sleep_out.value = 5

-----------------------------------------------------------------------------
(* PolygonPaginator.query_all, polygon.py:38-58 *)

\* the statuses an HTTP exchange may end with: 200, another 2xx, a 3xx that
\* requests does not follow (304), 4xx, 429 and 5xx
Statuses == {200, 201, 304, 404, 429, 500}

\* the ticks that pass between two requests
ElapseTicks == {1}

\* urls are the page numbers of the cursor chain; a page's body is tagged with its page
Body(url) == [page |-> url]

\* polygon.py:40, the condition under which query_all sleeps first
ShouldThrottle_gt(count, overload) == (count > MAX_QUERY_PER_MINUTE) \/ overload

ShouldThrottle(count, overload) == (count >= MAX_QUERY_PER_MINUTE) \/ overload

\* polygon.py:54, the recursive call on the cursor: payload is the default argument
CursorFrame_same_page(url) ==
    [pc |-> "enter", url |-> url, payload |-> "default", overload |-> FALSE]

CursorFrame(url) ==
    [pc |-> "enter", url |-> url + 1, payload |-> "default", overload |-> FALSE]

\* polygon.py:56, the recursive call after a 429: same url and payload, overload=True
RetryFrame_no_overload(url, payload) ==
    [pc |-> "enter", url |-> url, payload |-> payload, overload |-> FALSE]

RetryFrame_gives_up(url, payload) ==
    [pc |-> "returned", url |-> url, payload |-> payload, overload |-> FALSE]

RetryFrame(url, payload) ==
    [pc |-> "enter", url |-> url, payload |-> payload, overload |-> TRUE]

\* requests' Response.raise_for_status (polygon.py:58): raises for 4xx and 5xx only
raise_for_status(status) == status >= 400 /\ status < 600

\* a caller awaits query_all(url, payload) on the instance
Call(c) ==
    /\ frame[c].pc \in {"idle", "returned", "raised"}
    /\ calls < MaxCalls
    /\ calls' = calls + 1
    /\ frame' = [frame EXCEPT ![c] =
                    [pc |-> "enter", url |-> 1, payload |-> "caller", overload |-> FALSE]]
    /\ resp' = [resp EXCEPT ![c] = NoResp]
    /\ hist' = [hist EXCEPT ![c] = [NoHist EXCEPT !.start_len = Len(results)]]
    /\ UNCHANGED <<query_count, query_time_log, results, now, since_sleep, timeline, notPag>>

\* polygon.py:39-41: the throttle test; the sleep time is computed before the sleep starts
Enter(c) ==
    /\ frame[c].pc = "enter"
    /\ IF ShouldThrottle(query_count, frame[c].overload)
       THEN /\ frame' = [frame EXCEPT ![c].pc = "sleeping"]
            /\ timeline' = Recorded(timeline, [ev |-> "sleep_start", chain |-> c])
            /\ hist' = [hist EXCEPT ![c].slept = TRUE,
                                    ![c].entry_since = since_sleep,
                                    ![c].sleep_dur = api_sleep_time(query_time_log),
                                    ![c].sleeps_since_req = @ + 1,
                                    ![c].sleeps = @ + 1]
       ELSE /\ frame' = [frame EXCEPT ![c].pc = "request"]
            /\ timeline' = timeline
            /\ hist' = [hist EXCEPT ![c].slept = FALSE,
                                    ![c].entry_since = since_sleep]
    /\ UNCHANGED <<query_count, query_time_log, results, now, resp, calls, since_sleep,
                   notPag>>

\* polygon.py:41-43: asyncio.sleep returns, then the counter and the log are reset
Wake_keeps_log(c) ==
    /\ frame[c].pc = "sleeping"
    /\ now' = now + (IF hist[c].sleep_dur > 0 THEN hist[c].sleep_dur * TimeRes ELSE 0)
    /\ query_count' = 0
    /\ since_sleep' = 0
    /\ timeline' = Recorded(timeline, [ev |-> "sleep_end", chain |-> c])
    /\ frame' = [frame EXCEPT ![c].pc = "request"]
    /\ UNCHANGED <<query_time_log, results, resp, hist, calls, notPag>>

Wake(c) ==
    /\ frame[c].pc = "sleeping"
    /\ now' = now + (IF hist[c].sleep_dur > 0 THEN hist[c].sleep_dur * TimeRes ELSE 0)
    /\ query_count' = 0
    /\ query_time_log' = <<>>
    /\ since_sleep' = 0
    /\ timeline' = Recorded(timeline, [ev |-> "sleep_end", chain |-> c])
    /\ frame' = [frame EXCEPT ![c].pc = "request"]
    /\ UNCHANGED <<results, resp, hist, calls, notPag>>

\* polygon.py:45-49: the request is made and recorded, whatever its status; the
\* response is taken to offer get("request_id") and get("next_url") as the code uses them
Request(c) ==
    /\ frame[c].pc = "request"
    /\ \E st \in Statuses, nxt \in BOOLEAN, dt \in ElapseTicks :
        /\ nxt => (st = 200 /\ frame[c].url < MaxPages)
        /\ (st = 429) => hist[c].n429 < Max429
        /\ now' = now + dt
        /\ resp' = [resp EXCEPT ![c] = [status_code |-> st, has_next |-> nxt]]
        /\ query_time_log' = Append(query_time_log,
                                    [request_id |-> frame[c].url, query_timestamp |-> now + dt])
        /\ query_count' = query_count + 1
        /\ since_sleep' = since_sleep + 1
        /\ timeline' = Recorded(timeline, [ev |-> "request", chain |-> c])
        /\ hist' = [hist EXCEPT ![c].reqs = @ + 1,
                                ![c].len_at_req = Len(results),
                                ![c].all200 = @ /\ (st = 200),
                                ![c].n429 = @ + (IF st = 429 THEN 1 ELSE 0)]
    /\ frame' = [frame EXCEPT ![c].pc = "handle"]
    /\ UNCHANGED <<results, calls, notPag>>

\* what every response handler notes about the request it handled
Noted(c) ==
    [hist EXCEPT ![c].prev = [url |-> frame[c].url, payload |-> frame[c].payload,
                              status_code |-> resp[c].status_code],
                 ![c].prev_log = query_time_log,
                 ![c].sleeps_since_req = 0]

\* polygon.py:50-54
Handle200(c) ==
    /\ frame[c].pc = "handle"
    /\ resp[c].status_code = 200
    /\ results' = Append(results, Body(frame[c].url))
    /\ frame' = [frame EXCEPT ![c] =
                    IF resp[c].has_next THEN CursorFrame(frame[c].url)
                    ELSE [@ EXCEPT !.pc = "returned"]]
    /\ hist' = Noted(c)
    /\ UNCHANGED <<query_count, query_time_log, now, resp, calls, since_sleep, timeline,
                   notPag>>

\* polygon.py:55-56
Handle429(c) ==
    /\ frame[c].pc = "handle"
    /\ resp[c].status_code = 429
    /\ frame' = [frame EXCEPT ![c] = RetryFrame(frame[c].url, frame[c].payload)]
    /\ hist' = Noted(c)
    /\ UNCHANGED <<query_count, query_time_log, results, now, resp, calls, since_sleep,
                   timeline, notPag>>

\* polygon.py:57-58
HandleOther(c) ==
    /\ frame[c].pc = "handle"
    /\ resp[c].status_code \notin {200, 429}
    /\ frame' = [frame EXCEPT ![c].pc =
                    IF raise_for_status(resp[c].status_code) THEN "raised" ELSE "returned"]
    /\ hist' = Noted(c)
    /\ UNCHANGED <<query_count, query_time_log, results, now, resp, calls, since_sleep,
                   timeline, notPag>>

\* one caller at a time on the instance
Solo == {1}

InitPag == PagParked /\ SleepParked /\ DlParked /\ OrchParked /\ TaskParked

NextPag ==
    \E c \in Solo :
        \/ Call(c)
        \/ Enter(c)
        \/ Wake(c)
        \/ Request(c)
        \/ Handle200(c)
        \/ Handle429(c)
        \/ HandleOther(c)

SpecPag == InitPag /\ [][NextPag]_vars

\* the steps of a call that is under way: the event loop resumes the
\* coroutine, asyncio.sleep ends, and requests.get comes back with a response
Progress(c) ==
    \/ Enter(c)
    \/ Wake(c)
    \/ Request(c)
    \/ Handle200(c)
    \/ Handle429(c)
    \/ HandleOther(c)

\* SpecPag with the call never left suspended for ever
SpecPagFair == SpecPag /\ \A c \in Solo : WF_vars(Progress(c))

\* chain c may take a step: no other chain is between two suspension points.
\* The chains are coroutines of one event loop, and query_all suspends only
\* in asyncio.sleep (polygon.py:41); requests.get (46) blocks the loop
Exclusive(c) ==
    \A d \in Chains \ {c} : frame[d].pc \notin {"enter", "request", "handle"}

\* several callers on one instance
NextPagConc ==
    \E c \in Chains :
        /\ Exclusive(c)
        /\ \/ Call(c)
           \/ Enter(c)
           \/ Wake(c)
           \/ Request(c)
           \/ Handle200(c)
           \/ Handle429(c)
           \/ HandleOther(c)

SpecPagConc == InitPag /\ [][NextPagConc]_vars

-----------------------------------------------------------------------------
(* Claims about query_all *)

\* what the chain's current top-level call has appended to results
Appended(c) == SubSeq(results, hist[c].start_len + 1, Len(results))

\* the bodies of pages 1..k in page order
Pages(k) == [i \in 1..k |-> Body(i)]

Is2xx(status) == status >= 200 /\ status < 300

\* C1: a query_all call entered when exactly MAX_QUERY_PER_MINUTE requests
\* have been recorded since the last sleep sleeps before it issues its
\* request; a call entered with fewer recorded and overload false issues its
\* request without sleeping.
C1_RateLimitTrip ==
    \A c \in Chains :
        frame[c].pc \in {"sleeping", "request", "handle"} =>
            /\ (hist[c].entry_since = MAX_QUERY_PER_MINUTE) => hist[c].slept
            /\ (hist[c].entry_since < MAX_QUERY_PER_MINUTE /\ ~frame[c].overload)
                   => ~hist[c].slept

\* four requests were recorded without a sleep, and the fifth was issued after a sleep
C1_Witness ==
    \E c \in Chains :
        /\ frame[c].pc = "handle"
        /\ hist[c].entry_since = MAX_QUERY_PER_MINUTE
        /\ ~frame[c].overload
        /\ hist[c].slept

C4_RetryConvergence ==
    \A c \in Chains :
        /\ (frame[c].pc = "handle" /\ hist[c].prev.status_code = 429) =>
               /\ frame[c].url = hist[c].prev.url
               /\ frame[c].payload = hist[c].prev.payload
               /\ hist[c].sleeps_since_req = 1
               /\ hist[c].sleep_dur = api_sleep_time(hist[c].prev_log)
        /\ frame[c].pc = "raised" => resp[c].status_code \notin {200, 429}
        /\ (frame[c].pc # "idle" /\ hist[c].prev.status_code = 200) =>
               /\ Len(results) > 0
               /\ Last(results) = Body(hist[c].prev.url)

\* one 429, one sleep, one retry answered 200, and its body appended
C4_Witness ==
    \E c \in Chains :
        /\ frame[c].pc = "returned"
        /\ hist[c].n429 = 1
        /\ hist[c].reqs = 2
        /\ hist[c].sleeps = 1
        /\ resp[c].status_code = 200
        /\ Appended(c) = <<Body(1)>>

\* C5: a handled response whose status is neither 2xx nor 429 made
\* query_all raise, with nothing appended to results for it.
C5_OtherStatusRaises ==
    \A c \in Chains :
        (/\ frame[c].pc \in {"returned", "raised"}
         /\ ~Is2xx(resp[c].status_code)
         /\ resp[c].status_code # 429) =>
            /\ frame[c].pc = "raised"
            /\ Len(results) = hist[c].len_at_req

\* C19: whenever query_all has slept, query_count is 0 and query_time_log is
\* empty when the following request is about to be issued, and directly after
\* that request the count is 1 and the log holds exactly that one request.
C19_ResetAfterSleep ==
    \A c \in Chains :
        hist[c].slept =>
            /\ frame[c].pc = "request" => (query_count = 0 /\ query_time_log = <<>>)
            /\ frame[c].pc = "handle" =>
                   /\ query_count = 1
                   /\ query_time_log = << [request_id |-> frame[c].url,
                                           query_timestamp |-> now] >>

\* a request issued after a sleep that four earlier requests had forced
C19_Witness ==
    \E c \in Chains :
        /\ frame[c].pc = "handle"
        /\ hist[c].slept
        /\ hist[c].entry_since = MAX_QUERY_PER_MINUTE
        /\ query_count = 1
        /\ Len(query_time_log) = 1

\* C20: in every state of a paginator, and so at every sleep and every
\* return or raise of query_all, 0 <= query_count = len(query_time_log) <=
\* MAX_QUERY_PER_MINUTE; and the request a frame has just issued, whatever
\* its status, is the last entry of the log and added one to the count.
C20_RateLimitState ==
    /\ query_count = Len(query_time_log)
    /\ 0 <= query_count
    /\ query_count <= MAX_QUERY_PER_MINUTE
    /\ \A c \in Chains :
        frame[c].pc = "handle" =>
            /\ query_count = (IF hist[c].slept THEN 0 ELSE hist[c].entry_since) + 1
            /\ Last(query_time_log) = [request_id |-> frame[c].url, query_timestamp |-> now]

\* a call that raised on an error status with the count and the log both at four
C20_Witness ==
    \E c \in Chains :
        /\ frame[c].pc = "raised"
        /\ resp[c].status_code = 500
        /\ query_count = MAX_QUERY_PER_MINUTE
        /\ Len(query_time_log) = MAX_QUERY_PER_MINUTE

-----------------------------------------------------------------------------
(* The pool downloaders: api_pool_downloader and api_quote_downloader of     *)
(* curator/data_pipeline/download.py, api_pool_downloader of                 *)
(* option_bot/orchestrator.py                                                *)

Downloaders == {"curator_pool", "curator_quote", "legacy_pool"}

Min(a, b) == IF a < b THEN a ELSE b

\* OptionTicker tuples (db_tools/utils.py:6) of n contracts of the requested
\* ticker; with mix, a contract of another underlying ticker follows each
OptionTickers(n, mix) ==
    IF mix
    THEN [k \in 1..(2 * n) |->
            IF k % 2 = 1
            THEN [o_ticker |-> (k + 1) \div 2, underlying_ticker |-> "SPY"]
            ELSE [o_ticker |-> n + (k \div 2), underlying_ticker |-> "IVV"]]
    ELSE [k \in 1..n |-> [o_ticker |-> k, underlying_ticker |-> "SPY"]]

\* the numbers of contracts of the requested ticker that are tried: none, one,
\* around one chunk, two full chunks, and two chunks and a half
KeyCounts == {0, 1, 999, 1000, 1001, 2000, 2500}

\* paginator.generate_request_args: the number of request descriptors it
\* returns; an empty batch gives none
GenerateRequestArgs(args_data) ==
    IF Len(args_data) = 0 THEN {0} ELSE 0..MaxArgs

\* download.py:58 and :174, `if url_args:`; the downloader of
\* option_bot/orchestrator.py:115-119 opens its pool unconditionally
HasWork_unguarded(fn, n_args) == TRUE

HasWork(fn, n_args) == fn = "legacy_pool" \/ n_args > 0

\* download.py:56-57, :172-173, orchestrator.py:114-115
DlBegin(fn, args_data) ==
    \E n \in GenerateRequestArgs(args_data) :
        dl' = [NoDl EXCEPT !.fn = fn, !.pc = "generated", !.args_data = args_data,
                           !.n_args = n]

\* a caller awaits one of the downloaders directly, on some batch
DlCall ==
    /\ dl.pc \in {"idle", "returned", "raised"}
    /\ quotes.pc \in {"idle", "done", "raised"}
    /\ runs < MaxRuns
    /\ runs' = runs + 1
    /\ \E fn \in Downloaders, n \in {0, 1} : DlBegin(fn, OptionTickers(n, FALSE))
    /\ quotes' = NoQuotes
    /\ UNCHANGED notDl

\* download.py:58/67-68 and :174: nothing to download, the function returns
DlSkip ==
    /\ dl.pc = "generated"
    /\ ~HasWork(dl.fn, dl.n_args)
    /\ dl' = [dl EXCEPT !.pc = "returned"]
    /\ UNCHANGED <<quotes, runs, notDl>>

\* download.py:61-63, :177-180, orchestrator.py:118-119: `async with Pool(...)`
DlOpenPool ==
    /\ dl.pc = "generated"
    /\ HasWork(dl.fn, dl.n_args)
    /\ dl' = [dl EXCEPT !.pc = "starmap", !.pool_open = @ + 1, !.pools_created = @ + 1]
    /\ UNCHANGED <<quotes, runs, notDl>>

\* download.py:64, :182, orchestrator.py:120: one paginator.download_data task of the starmap
DlTask ==
    /\ dl.pc = "starmap"
    /\ dl.done < dl.n_args
    /\ dl' = [dl EXCEPT !.done = @ + 1, !.invoked = @ + 1]
    /\ UNCHANGED <<quotes, runs, notDl>>

\* the starmap raises (a task's exception, a worker crash)
DlStarmapRaise ==
    /\ dl.pc = "starmap"
    /\ dl.done < dl.n_args
    /\ dl' = [dl EXCEPT !.pc = "unwinding"]
    /\ UNCHANGED <<quotes, runs, notDl>>

\* the exit of a pool context (aiomultiprocess.Pool.__aexit__, and QuotePool's,
\* data_pipeline/QuotePool.py): the workers are terminated and joined
PoolExit(open) == open - 1

\* the end of the `async with` block: the pool is closed on completion and on an exception
DlClosePool_leaks_on_raise ==
    /\ \/ dl.pc = "starmap" /\ dl.done = dl.n_args /\ dl' = [dl EXCEPT !.pc = "returned",
                                                                        !.pool_open = PoolExit(@)]
       \/ dl.pc = "unwinding" /\ dl' = [dl EXCEPT !.pc = "raised"]
    /\ UNCHANGED <<quotes, runs, notDl>>

DlClosePool ==
    /\ \/ dl.pc = "starmap" /\ dl.done = dl.n_args /\ dl' = [dl EXCEPT !.pc = "returned",
                                                                        !.pool_open = PoolExit(@)]
       \/ dl.pc = "unwinding" /\ dl' = [dl EXCEPT !.pc = "raised", !.pool_open = PoolExit(@)]
    /\ UNCHANGED <<quotes, runs, notDl>>

-----------------------------------------------------------------------------
(* download_options_quotes, download.py:130-152 *)

\* download.py:143, small_batch = batch_o_tickers[i : i + BATCH_SIZE_OTICKERS]
small_batch_short(batch, i) ==
    SubSeq(batch, i + 1, Min(i + BATCH_SIZE_OTICKERS - 1, Len(batch)))

small_batch(batch, i) ==
    SubSeq(batch, i + 1, Min(i + BATCH_SIZE_OTICKERS, Len(batch)))

\* download.py:141, [x for x in o_tickers if x.underlying_ticker == ticker]
FilterByTicker(o_tickers, ticker) ==
    LET IsOf(x) == x.underlying_ticker = ticker
    IN  SelectSeq(o_tickers, IsOf)

\* download.py:137-141
QuotesCall ==
    /\ dl.pc \in {"idle", "returned", "raised"}
    /\ quotes.pc \in {"idle", "done", "raised"}
    /\ runs < MaxRuns
    /\ runs' = runs + 1
    /\ \E n \in KeyCounts, mix \in BOOLEAN :
        LET o_tickers == OptionTickers(n, mix) IN
        quotes' = [pc |-> "loop", ticker |-> "SPY", o_tickers |-> o_tickers,
                   batch_o_tickers |-> FilterByTicker(o_tickers, "SPY"),
                   i |-> 0, chunks |-> <<>>]
    /\ dl' = NoDl
    /\ UNCHANGED notDl

\* download.py:142-151: one turn of the loop, up to the await of api_quote_downloader
QuotesDispatch ==
    /\ quotes.pc = "loop"
    /\ quotes.i < Len(quotes.batch_o_tickers)
    /\ LET chunk == small_batch(quotes.batch_o_tickers, quotes.i) IN
        /\ quotes' = [quotes EXCEPT !.pc = "await", !.chunks = Append(@, chunk)]
        /\ DlBegin("curator_quote", chunk)
    /\ UNCHANGED <<runs, notDl>>

\* api_quote_downloader returned: the loop goes on with the next slice
QuotesResume ==
    /\ quotes.pc = "await"
    /\ dl.pc = "returned"
    /\ quotes' = [quotes EXCEPT !.pc = "loop", !.i = @ + BATCH_SIZE_OTICKERS]
    /\ UNCHANGED <<dl, runs, notDl>>

\* api_quote_downloader raised: the exception leaves download_options_quotes
QuotesRaise_continues ==
    /\ quotes.pc = "await"
    /\ dl.pc = "raised"
    /\ quotes' = [quotes EXCEPT !.pc = "loop", !.i = @ + BATCH_SIZE_OTICKERS]
    /\ UNCHANGED <<dl, runs, notDl>>

QuotesRaise ==
    /\ quotes.pc = "await"
    /\ dl.pc = "raised"
    /\ quotes' = [quotes EXCEPT !.pc = "raised"]
    /\ UNCHANGED <<dl, runs, notDl>>

\* download.py:142/152: the range is exhausted
QuotesDone ==
    /\ quotes.pc = "loop"
    /\ quotes.i >= Len(quotes.batch_o_tickers)
    /\ quotes' = [quotes EXCEPT !.pc = "done"]
    /\ UNCHANGED <<dl, runs, notDl>>

InitDl == PagParked /\ SleepParked /\ DlParked /\ OrchParked /\ TaskParked

NextDl ==
    \/ DlCall
    \/ DlSkip
    \/ DlOpenPool
    \/ DlTask
    \/ DlStarmapRaise
    \/ DlClosePool
    \/ QuotesCall
    \/ QuotesDispatch
    \/ QuotesResume
    \/ QuotesRaise
    \/ QuotesDone

SpecDl == InitDl /\ [][NextDl]_vars

-----------------------------------------------------------------------------
(* Claims about the downloaders *)

\* C6 as claimed: a downloader whose generate_request_args returned no
\* request descriptors returns normally, without having created a pool and
\* without any invocation of paginator.download_data.
C6_EmptyBatchNoPool ==
    (dl.fn # "none" /\ dl.n_args = 0) =>
        /\ dl.pools_created = 0
        /\ dl.invoked = 0
        /\ dl.pc \notin {"unwinding", "raised"}

\* C6 as amended: a downloader whose generate_request_args returned no
\* request descriptors never invokes paginator.download_data and never
\* raises; the two downloaders of curator/data_pipeline/download.py create
\* no pool, while api_pool_downloader of option_bot/orchestrator.py creates
\* one pool, runs the empty starmap in it and closes it before returning.
C6_EmptyBatchNoOp ==
    (dl.fn # "none" /\ dl.n_args = 0) =>
        /\ dl.invoked = 0
        /\ dl.pc \notin {"unwinding", "raised"}
        /\ dl.fn \in {"curator_pool", "curator_quote"} => dl.pools_created = 0
        /\ (dl.fn = "legacy_pool" /\ dl.pc = "returned") =>
               dl.pools_created = 1 /\ dl.pool_open = 0

\* api_quote_downloader returned on a batch that gave no request descriptors
C6_Witness ==
    /\ dl.fn = "curator_quote"
    /\ dl.pc = "returned"
    /\ dl.n_args = 0
    /\ dl.pools_created = 0
    /\ dl.invoked = 0

RECURSIVE Concat(_)
Concat(ss) == IF Len(ss) = 0 THEN <<>> ELSE Head(ss) \o Concat(Tail(ss))

Keys(chunk) == {chunk[k].o_ticker : k \in 1..Len(chunk)}

\* C7: when download_options_quotes is done, with n the number of option
\* tickers of the requested underlying ticker, it has dispatched ceil(n/1000)
\* chunks; each but the last holds 1000 keys and the last the remainder; no
\* key is in two chunks; and the chunks concatenated in dispatch order are
\* the filtered input list.
C7_Chunking ==
    quotes.pc = "done" =>
        LET filtered == FilterByTicker(quotes.o_tickers, quotes.ticker)
            n        == Len(filtered)
            m        == Len(quotes.chunks)
        IN  /\ m = CeilDiv(n, 1000)
            /\ \A j \in 1..m :
                   Len(quotes.chunks[j]) = (IF j < m THEN 1000 ELSE n - 1000 * (m - 1))
            /\ \A j, k \in 1..m :
                   j < k => Keys(quotes.chunks[j]) \cap Keys(quotes.chunks[k]) = {}
            /\ Concat(quotes.chunks) = filtered

\* 2500 keys among 5000 option tickers went out as chunks of 1000, 1000 and 500
C7_Witness ==
    /\ quotes.pc = "done"
    /\ Len(quotes.o_tickers) = 5000
    /\ Len(quotes.batch_o_tickers) = 2500
    /\ Len(quotes.chunks) = 3
    /\ Len(quotes.chunks[1]) = 1000
    /\ Len(quotes.chunks[2]) = 1000
    /\ Len(quotes.chunks[3]) = 500

\* C18: whenever api_pool_downloader or api_quote_downloader is not running,
\* having returned or raised, every pool it opened is closed; a raising
\* starmap included. At most one pool is open at any time.
C18_ScopedPoolRelease ==
    /\ dl.pool_open \in {0, 1}
    /\ dl.pc \in {"idle", "returned", "raised"} => dl.pool_open = 0
    /\ dl.pool_open = 1 => dl.pc \in {"starmap", "unwinding"}

\* a downloader whose starmap raised after a task had run: its one pool is closed
C18_Witness ==
    /\ dl.pc = "raised"
    /\ dl.pools_created = 1
    /\ dl.invoked >= 1
    /\ dl.pool_open = 0

-----------------------------------------------------------------------------
(* The stage orchestrator, option_bot/data_pipeline/orchestrator.py          *)
(* Stage ids are those of import_partial: 1 metadata, 2 stock prices,        *)
(* 3 options contracts, 4 options prices, 5 snapshots, 6 quotes.             *)

\* x in partial
In_head_only(x, list) == Len(list) > 0 /\ list[1] = x

In(x, list) == \E k \in 1..Len(list) : list[k] = x

\* Python's truth value of a lookup: None and the empty dict are false
Truthy(lookup) == lookup.kind # "None" /\ ~lookup.empty

\* what pull_tickers_from_db and generate_o_ticker_lookup may return
\* (db_tools/utils.py:9-39): a dict, possibly empty
LookupResults(op, unexpired) ==
    IF op = "pull_tickers_from_db"
    THEN {[kind |-> "stock", empty |-> e] : e \in BOOLEAN}
    ELSE {[kind |-> (IF unexpired THEN "unexpired" ELSE "full"), empty |-> e] : e \in BOOLEAN}

\* the awaits of import_all in program order, orchestrator.py:39-66; the
\* upload of the quotes is commented out (line 67)
AllProgram_lookup_before_contracts ==
    << [op |-> "download", stage |-> 1, arg |-> "tickers", target |-> "none"],
       [op |-> "upload", stage |-> 1, arg |-> "tickers", target |-> "none"],
       [op |-> "pull_tickers_from_db", stage |-> 0, arg |-> "tickers", target |-> "ticker_lookup"],
       [op |-> "download", stage |-> 2, arg |-> "ticker_lookup", target |-> "none"],
       [op |-> "upload", stage |-> 2, arg |-> "ticker_lookup", target |-> "none"],
       [op |-> "generate_o_ticker_lookup", stage |-> 0, arg |-> "unexpired", target |-> "o_tickers"],
       [op |-> "download", stage |-> 3, arg |-> "ticker_lookup", target |-> "none"],
       [op |-> "upload", stage |-> 3, arg |-> "ticker_lookup", target |-> "none"],
       [op |-> "download", stage |-> 5, arg |-> "o_tickers", target |-> "none"],
       [op |-> "upload", stage |-> 5, arg |-> "o_tickers", target |-> "none"],
       [op |-> "generate_o_ticker_lookup", stage |-> 0, arg |-> "full", target |-> "o_tickers"],
       [op |-> "download", stage |-> 4, arg |-> "o_tickers", target |-> "none"],
       [op |-> "upload", stage |-> 4, arg |-> "o_tickers", target |-> "none"],
       [op |-> "download", stage |-> 6, arg |-> "o_tickers", target |-> "none"] >>

AllProgram ==
    << [op |-> "download", stage |-> 1, arg |-> "tickers", target |-> "none"],
       [op |-> "upload", stage |-> 1, arg |-> "tickers", target |-> "none"],
       [op |-> "pull_tickers_from_db", stage |-> 0, arg |-> "tickers", target |-> "ticker_lookup"],
       [op |-> "download", stage |-> 2, arg |-> "ticker_lookup", target |-> "none"],
       [op |-> "upload", stage |-> 2, arg |-> "ticker_lookup", target |-> "none"],
       [op |-> "download", stage |-> 3, arg |-> "ticker_lookup", target |-> "none"],
       [op |-> "upload", stage |-> 3, arg |-> "ticker_lookup", target |-> "none"],
       [op |-> "generate_o_ticker_lookup", stage |-> 0, arg |-> "unexpired", target |-> "o_tickers"],
       [op |-> "download", stage |-> 5, arg |-> "o_tickers", target |-> "none"],
       [op |-> "upload", stage |-> 5, arg |-> "o_tickers", target |-> "none"],
       [op |-> "generate_o_ticker_lookup", stage |-> 0, arg |-> "full", target |-> "o_tickers"],
       [op |-> "download", stage |-> 4, arg |-> "o_tickers", target |-> "none"],
       [op |-> "upload", stage |-> 4, arg |-> "o_tickers", target |-> "none"],
       [op |-> "download", stage |-> 6, arg |-> "o_tickers", target |-> "none"] >>

\* the `if k in partial` blocks of import_partial in program order,
\* orchestrator.py:81-111: the lookup a block makes ("always", "ifnot" its
\* variable is already truthy, "never") and the variable its stage works on
PartialProgram_eager_lookup ==
    << [stage |-> 1, lookup |-> "always", op |-> "pull_tickers_from_db", mode |-> "tickers",
        var |-> "tickers"],
       [stage |-> 2, lookup |-> "always", op |-> "pull_tickers_from_db", mode |-> "tickers",
        var |-> "ticker_lookup"],
       [stage |-> 3, lookup |-> "ifnot", op |-> "pull_tickers_from_db", mode |-> "tickers",
        var |-> "ticker_lookup"],
       [stage |-> 4, lookup |-> "always", op |-> "generate_o_ticker_lookup", mode |-> "full",
        var |-> "o_tickers"],
       [stage |-> 5, lookup |-> "ifnot", op |-> "generate_o_ticker_lookup", mode |-> "unexpired",
        var |-> "o_tickers"],
       [stage |-> 6, lookup |-> "ifnot", op |-> "generate_o_ticker_lookup", mode |-> "full",
        var |-> "o_tickers"] >>

PartialProgram ==
    << [stage |-> 1, lookup |-> "never", op |-> "none", mode |-> "tickers", var |-> "tickers"],
       [stage |-> 2, lookup |-> "always", op |-> "pull_tickers_from_db", mode |-> "tickers",
        var |-> "ticker_lookup"],
       [stage |-> 3, lookup |-> "ifnot", op |-> "pull_tickers_from_db", mode |-> "tickers",
        var |-> "ticker_lookup"],
       [stage |-> 4, lookup |-> "always", op |-> "generate_o_ticker_lookup", mode |-> "full",
        var |-> "o_tickers"],
       [stage |-> 5, lookup |-> "ifnot", op |-> "generate_o_ticker_lookup", mode |-> "unexpired",
        var |-> "o_tickers"],
       [stage |-> 6, lookup |-> "ifnot", op |-> "generate_o_ticker_lookup", mode |-> "full",
        var |-> "o_tickers"] >>

\* the value of one of the invocation's locals; `tickers` is empty when all_,
\* and the literals of a lookup call (unexpired or not) stand for themselves
Local(name) ==
    CASE name = "ticker_lookup" -> orch.ticker_lookup
      [] name = "o_tickers"     -> orch.o_tickers
      [] OTHER                  -> [kind |-> name, empty |-> orch.all_]

\* orchestrator.py:91, :102, :108: whether a block performs its lookup
NeedsLookup_never_lazy(block) == block.lookup = "always"

NeedsLookup(block) ==
    \/ block.lookup = "always"
    \/ block.lookup = "ifnot" /\ ~Truthy(Local(block.var))

\* an await starts: the call is made and the coroutine is suspended on it
Await(call, after) ==
    /\ orch' = [orch EXCEPT !.status = "awaiting", !.awaited = call, !.after = after]
    /\ trace' = Append(trace, [ev |-> "call", op |-> call.op, stage |-> call.stage,
                               arg |-> call.arg])

\* orchestrator.py:25
ImportAllCall ==
    /\ orch.fn = "none"
    /\ \E given \in BOOLEAN :
        orch' = [NoOrch EXCEPT !.fn = "import_all", !.status = "running", !.pc = 1,
                               !.all_ = ~given]
    /\ UNCHANGED <<trace, notOrch>>

\* orchestrator.py:39-66, the next await of import_all
ImportAllStep ==
    /\ orch.fn = "import_all"
    /\ orch.status = "running"
    /\ orch.pc <= Len(AllProgram)
    /\ LET stmt == AllProgram[orch.pc] IN
        Await([op |-> stmt.op, stage |-> stmt.stage, arg |-> Local(stmt.arg),
               target |-> stmt.target],
              [pc |-> orch.pc + 1, phase |-> "test"])
    /\ UNCHANGED notOrch

\* orchestrator.py:70-79
ImportPartialCall ==
    /\ orch.fn = "none"
    /\ \E chosen \in SUBSET (1..MaxStageId), descending \in BOOLEAN, given \in BOOLEAN :
        LET n       == Cardinality(chosen)
            Rank(x) == Cardinality({y \in chosen : y < x}) + 1
            partial == [k \in 1..n |->
                           CHOOSE x \in chosen :
                               Rank(x) = (IF descending THEN n + 1 - k ELSE k)]
        IN  orch' = [NoOrch EXCEPT !.fn = "import_partial", !.status = "running", !.pc = 1,
                                   !.partial = partial, !.all_ = ~given]
    /\ UNCHANGED <<trace, notOrch>>

\* an `if k in partial` that is false
PartialSkip ==
    /\ orch.fn = "import_partial"
    /\ orch.status = "running"
    /\ orch.pc <= Len(PartialProgram)
    /\ orch.phase = "test"
    /\ ~In(PartialProgram[orch.pc].stage, orch.partial)
    /\ orch' = [orch EXCEPT !.pc = @ + 1]
    /\ UNCHANGED <<trace, notOrch>>

\* orchestrator.py:86, :92, :97, :103, :109: the block's lookup
PartialLookup ==
    /\ orch.fn = "import_partial"
    /\ orch.status = "running"
    /\ orch.pc <= Len(PartialProgram)
    /\ orch.phase = "test"
    /\ LET block == PartialProgram[orch.pc] IN
        /\ In(block.stage, orch.partial)
        /\ NeedsLookup(block)
        /\ Await([op |-> block.op, stage |-> 0, arg |-> Local(block.mode), target |-> block.var],
                 [pc |-> orch.pc, phase |-> "download"])
    /\ UNCHANGED notOrch

\* orchestrator.py:82, :87, :93, :98, :104, :110: the block's download
PartialDownload ==
    /\ orch.fn = "import_partial"
    /\ orch.status = "running"
    /\ orch.pc <= Len(PartialProgram)
    /\ LET block == PartialProgram[orch.pc] IN
        /\ \/ orch.phase = "download"
           \/ orch.phase = "test" /\ In(block.stage, orch.partial) /\ ~NeedsLookup(block)
        /\ Await([op |-> "download", stage |-> block.stage, arg |-> Local(block.var),
                  target |-> "none"],
                 [pc |-> orch.pc, phase |-> "upload"])
    /\ UNCHANGED notOrch

\* orchestrator.py:83, :88, :94, :99, :105, :111: the block's upload
PartialUpload ==
    /\ orch.fn = "import_partial"
    /\ orch.status = "running"
    /\ orch.pc <= Len(PartialProgram)
    /\ orch.phase = "upload"
    /\ LET block == PartialProgram[orch.pc] IN
        Await([op |-> "upload", stage |-> block.stage, arg |-> Local(block.var),
               target |-> "none"],
              [pc |-> orch.pc + 1, phase |-> "test"])
    /\ UNCHANGED notOrch

\* the awaited call returns; a lookup's result is assigned to its variable
OrchReturn ==
    /\ orch.status = "awaiting"
    /\ LET call == orch.awaited IN
        \E result \in (IF call.target = "none" THEN {None}
                       ELSE LookupResults(call.op, call.arg.kind = "unexpired")) :
            /\ orch' = [orch EXCEPT
                          !.status = "running",
                          !.awaited = NoAwait,
                          !.pc = orch.after.pc,
                          !.phase = orch.after.phase,
                          !.ticker_lookup = IF call.target = "ticker_lookup" THEN result ELSE @,
                          !.o_tickers = IF call.target = "o_tickers" THEN result ELSE @]
            /\ trace' = Append(trace, [ev |-> "ret", op |-> call.op, stage |-> call.stage,
                                       arg |-> result])
    /\ UNCHANGED notOrch

\* the awaited call raises: nothing catches it, the invocation ends
OrchRaise ==
    /\ orch.status = "awaiting"
    /\ orch' = [orch EXCEPT !.status = "raised", !.awaited = NoAwait]
    /\ trace' = Append(trace, [ev |-> "raise", op |-> orch.awaited.op,
                               stage |-> orch.awaited.stage, arg |-> None])
    /\ UNCHANGED notOrch

\* the end of the function body
OrchFinish ==
    /\ orch.status = "running"
    /\ orch.pc > (IF orch.fn = "import_all" THEN Len(AllProgram) ELSE Len(PartialProgram))
    /\ orch' = [orch EXCEPT !.status = "done"]
    /\ UNCHANGED <<trace, notOrch>>

InitOrch == PagParked /\ SleepParked /\ DlParked /\ OrchParked /\ TaskParked

NextOrch ==
    \/ ImportAllCall
    \/ ImportAllStep
    \/ ImportPartialCall
    \/ PartialSkip
    \/ PartialLookup
    \/ PartialDownload
    \/ PartialUpload
    \/ OrchReturn
    \/ OrchRaise
    \/ OrchFinish

SpecOrch == InitOrch /\ [][NextOrch]_vars

-----------------------------------------------------------------------------
(* Claims about the orchestrator *)

IsCall(e, op, stages) == e.ev = "call" /\ e.op = op /\ e.stage \in stages

IsRet(e, op, stages) == e.ev = "ret" /\ e.op = op /\ e.stage \in stages

\* the stages whose download was called, in call order
RECURSIVE DownloadOrder(_)
DownloadOrder(t) ==
    IF Len(t) = 0 THEN <<>>
    ELSE IF IsCall(Head(t), "download", 1..6)
         THEN <<Head(t).stage>> \o DownloadOrder(Tail(t))
         ELSE DownloadOrder(Tail(t))

IsPrefix(a, b) == Len(a) <= Len(b) /\ \A k \in 1..Len(a) : a[k] = b[k]

\* C8: in a partial run, before any download of stage 4, 5 or 6 is called,
\* a generate_o_ticker_lookup call of that invocation has returned.
C8_PartialLookupFirst ==
    orch.fn = "import_partial" =>
        \A k \in 1..Len(trace) :
            IsCall(trace[k], "download", {4, 5, 6}) =>
                \E j \in 1..(k - 1) : IsRet(trace[j], "generate_o_ticker_lookup", {0})

\* the partial run of stage set {6}: lookup called, returned, then the quotes download
C8_Witness ==
    /\ orch.fn = "import_partial"
    /\ orch.partial = <<6>>
    /\ orch.status = "done"
    /\ IsCall(trace[1], "generate_o_ticker_lookup", {0})
    /\ IsRet(trace[2], "generate_o_ticker_lookup", {0})
    /\ IsCall(trace[3], "download", {6})

\* C9: in import_all the downloads are called in the order metadata, stock
\* prices, contracts, snapshots, prices, quotes; no call starts before the
\* previous one returned, and a stage's upload starts only after its own
\* download returned; the contracts upload has returned before any
\* option-ticker lookup and any snapshots, prices or quotes download.
C9_FullRunOrder ==
    orch.fn = "import_all" =>
        /\ IsPrefix(DownloadOrder(trace), <<1, 2, 3, 5, 4, 6>>)
        /\ orch.status = "done" => DownloadOrder(trace) = <<1, 2, 3, 5, 4, 6>>
        /\ \A k \in 1..Len(trace) :
            /\ (trace[k].ev = "call" /\ k > 1) => trace[k - 1].ev = "ret"
            /\ IsCall(trace[k], "upload", 1..6) =>
                   \E j \in 1..(k - 1) : IsRet(trace[j], "download", {trace[k].stage})
            /\ (\/ IsCall(trace[k], "generate_o_ticker_lookup", {0})
                \/ IsCall(trace[k], "download", {4, 5, 6})) =>
                   \E j \in 1..(k - 1) : IsRet(trace[j], "upload", {3})

\* a full run that went through to the quotes download and completed
C9_Witness ==
    /\ orch.fn = "import_all"
    /\ orch.status = "done"
    /\ \E k \in 1..Len(trace) : IsRet(trace[k], "download", {6})

\* C10: when a full run completes, each of the six stages has made its
\* download call and, after it, its upload call.
C10_EveryStagePersists ==
    (orch.fn = "import_all" /\ orch.status = "done") =>
        \A s \in 1..6 :
            \E j, k \in 1..Len(trace) :
                /\ j < k
                /\ IsCall(trace[j], "download", {s})
                /\ IsCall(trace[k], "upload", {s})

\* the number of calls of op made for stage s
CountCalls(t, op, s) == Cardinality({k \in 1..Len(t) : IsCall(t[k], op, {s})})

\* the stage ids given in `partial`
Selected(partial) == {partial[k] : k \in 1..Len(partial)}

Ascending(seq) == \A j, k \in 1..Len(seq) : j < k => seq[j] < seq[k]

\* C11: in a partial run, for every stage id s in 1..6, the download and the
\* upload of stage s are never called when s is not in `partial`, never called
\* twice, and called exactly once each by the time the run completes when s
\* is in `partial`; the downloads are called in ascending stage order
\* whatever the order of `partial`; and a `partial` holding no id of 1..6
\* causes no download, upload or lookup call at all.
C11_StageSelection ==
    orch.fn = "import_partial" =>
        /\ \A s \in 1..6 :
            /\ CountCalls(trace, "download", s) <= 1
            /\ CountCalls(trace, "upload", s) <= 1
            /\ s \notin Selected(orch.partial) =>
                   /\ CountCalls(trace, "download", s) = 0
                   /\ CountCalls(trace, "upload", s) = 0
            /\ (s \in Selected(orch.partial) /\ orch.status = "done") =>
                   /\ CountCalls(trace, "download", s) = 1
                   /\ CountCalls(trace, "upload", s) = 1
        /\ Ascending(DownloadOrder(trace))
        /\ \A k \in 1..Len(trace) : trace[k].stage \in 0..6
        /\ Selected(orch.partial) \cap (1..6) = {} => trace = <<>>

\* a completed partial run given <<7, 6, 3, 1>>: stages 1, 3, 6 ran in that order
C11_Witness ==
    /\ orch.fn = "import_partial"
    /\ orch.status = "done"
    /\ orch.partial = <<7, 6, 3, 1>>
    /\ DownloadOrder(trace) = <<1, 3, 6>>
    /\ \A s \in {1, 3, 6} : CountCalls(trace, "upload", s) = 1

\* C12: within one import_partial invocation pull_tickers_from_db is called
\* at most once and generate_o_ticker_lookup is called at most once, whatever
\* the stage subset and whatever the lookups return, an empty result included.
C12_LookupAtMostOnce ==
    orch.fn = "import_partial" =>
        /\ CountCalls(trace, "pull_tickers_from_db", 0) <= 1
        /\ CountCalls(trace, "generate_o_ticker_lookup", 0) <= 1

-----------------------------------------------------------------------------
(* The batch functions and per-ticker tasks: option_bot/orchestrator.py,    *)
(* data_pipeline/orchestrator.py:114-119 and download.py:90-104             *)

TickerNames == {"A", "B"}

\* the ticker lists a caller may give: up to MaxTickers different tickers
TickerLists ==
    UNION {{l \in [1..n -> TickerNames] : \A j, k \in 1..n : j # k => l[j] # l[k]} :
           n \in 0..MaxTickers}

\* no invocation of this part is in progress and one more may start
Free ==
    /\ jobs < MaxJobs
    /\ rm.pc \in {"idle", "returned", "raised"}
    /\ ct.pc \in {"idle", "returned", "raised"}
    /\ add.pc \in {"idle", "returned", "raised"}
    /\ task.pc \in {"idle", "returned", "raised"}

(* remove_tickers_from_universe, data_pipeline/orchestrator.py:114-119 and  *)
(* option_bot/orchestrator.py:248-252 (the same text)                       *)

RemoveCall ==
    /\ Free
    /\ jobs' = jobs + 1
    /\ \E tickers \in TickerLists : rm' = [NoRm EXCEPT !.pc = "loop", !.tickers = tickers, !.i = 1]
    /\ UNCHANGED <<ct, add, task, notTask>>

\* `for ticker in tickers:` ... `await delete_stock_ticker(ticker)`
RemoveAwaitDelete ==
    /\ rm.pc = "loop"
    /\ rm.i <= Len(rm.tickers)
    /\ rm' = [rm EXCEPT !.pc = "deleting", !.attempted = Append(@, rm.tickers[rm.i])]
    /\ UNCHANGED <<ct, add, task, jobs, notTask>>

\* delete_stock_ticker returned: the success is logged, the loop goes on
RemoveDeleted ==
    /\ rm.pc = "deleting"
    /\ rm' = [rm EXCEPT !.pc = "loop", !.deleted = Append(@, rm.tickers[rm.i]), !.i = @ + 1]
    /\ UNCHANGED <<ct, add, task, jobs, notTask>>

\* delete_stock_ticker raised: the loop has no try/except, the exception
\* leaves the function
RemoveDeleteRaises ==
    /\ rm.pc = "deleting"
    /\ rm' = [rm EXCEPT !.pc = "raised", !.failed = Append(@, rm.tickers[rm.i])]
    /\ UNCHANGED <<ct, add, task, jobs, notTask>>

\* the list is exhausted
RemoveReturn ==
    /\ rm.pc = "loop"
    /\ rm.i > Len(rm.tickers)
    /\ rm' = [rm EXCEPT !.pc = "returned"]
    /\ UNCHANGED <<ct, add, task, jobs, notTask>>

(* download_options_contracts, download.py:90-104, and                      *)
(* fetch_options_contracts, option_bot/orchestrator.py:300-314              *)

ContractsFns == {"download_options_contracts", "fetch_options_contracts"}

Elems(l) == {l[k] : k \in 1..Len(l)}

\* Python's truth value of an optional list and of an optional dict
TruthyList(a) == a.given /\ Len(a.items) > 0

TruthyDict(a) == a.given /\ a.keys # {}

\* download.py:90-94, orchestrator.py:300-304
ContractsCall ==
    /\ Free
    /\ jobs' = jobs + 1
    /\ \E fn \in ContractsFns,
          tickers \in {NoneList} \cup {[given |-> TRUE, items |-> l] : l \in TickerLists},
          lookup \in {NoneDict} \cup {[given |-> TRUE, keys |-> K] : K \in SUBSET TickerNames} :
        ct' = [NoCt EXCEPT !.fn = fn, !.pc = "check", !.tickers = tickers,
                           !.ticker_id_lookup = lookup,
                           !.args_tickers = tickers, !.args_lookup = lookup]
    /\ UNCHANGED <<rm, add, task, notTask>>

\* download.py:96-97, orchestrator.py:306-307
ContractsInvalid ==
    /\ ct.pc = "check"
    /\ ~TruthyList(ct.tickers) /\ ~TruthyDict(ct.ticker_id_lookup)
    /\ ct' = [ct EXCEPT !.pc = "raised", !.error = "InvalidArgs"]
    /\ UNCHANGED <<rm, add, task, jobs, notTask>>

\* download.py:98-99, orchestrator.py:308-309: tickers = list(ticker_id_lookup.keys())
ContractsFromKeys_drop_lookup ==
    /\ ct.pc = "check"
    /\ ~TruthyList(ct.tickers) /\ TruthyDict(ct.ticker_id_lookup)
    /\ \E l \in TickerLists :
        /\ Elems(l) = ct.ticker_id_lookup.keys
        /\ ct' = [ct EXCEPT !.pc = "awaiting_lookup", !.lookups = @ + 1,
                             !.tickers = [given |-> TRUE, items |-> l], !.requested = l]
    /\ UNCHANGED <<rm, add, task, jobs, notTask>>

ContractsFromKeys ==
    /\ ct.pc = "check"
    /\ ~TruthyList(ct.tickers) /\ TruthyDict(ct.ticker_id_lookup)
    /\ \E l \in TickerLists :
        /\ Elems(l) = ct.ticker_id_lookup.keys
        /\ ct' = [ct EXCEPT !.pc = "ready", !.tickers = [given |-> TRUE, items |-> l]]
    /\ UNCHANGED <<rm, add, task, jobs, notTask>>

\* download.py:100-101, orchestrator.py:310-311: await lookup_multi_ticker_ids(tickers, stock=True)
ContractsLookup ==
    /\ ct.pc = "check"
    /\ TruthyList(ct.tickers) /\ ~TruthyDict(ct.ticker_id_lookup)
    /\ ct' = [ct EXCEPT !.pc = "awaiting_lookup", !.lookups = @ + 1,
                         !.requested = ct.tickers.items]
    /\ UNCHANGED <<rm, add, task, jobs, notTask>>

\* download.py:102, orchestrator.py:312: the rows found, possibly fewer than
\* requested, become the lookup; their number is not compared with anything
ContractsLookupReturn ==
    /\ ct.pc = "awaiting_lookup"
    /\ \E found \in SUBSET Elems(ct.requested) :
        ct' = [ct EXCEPT !.pc = "ready", !.resolved = found,
                         !.ticker_id_lookup = [given |-> TRUE, keys |-> found]]
    /\ UNCHANGED <<rm, add, task, jobs, notTask>>

\* the lookup query raises
ContractsLookupRaises ==
    /\ ct.pc = "awaiting_lookup"
    /\ ct' = [ct EXCEPT !.pc = "raised", !.error = "lookup"]
    /\ UNCHANGED <<rm, add, task, jobs, notTask>>

\* both arguments given: no branch of the if is taken
ContractsBothGiven ==
    /\ ct.pc = "check"
    /\ TruthyList(ct.tickers) /\ TruthyDict(ct.ticker_id_lookup)
    /\ ct' = [ct EXCEPT !.pc = "ready"]
    /\ UNCHANGED <<rm, add, task, jobs, notTask>>

\* download.py:103-104, orchestrator.py:313-314: the paginator is built and
\* api_pool_downloader is awaited with it
ContractsDispatch ==
    /\ ct.pc = "ready"
    /\ ct' = [ct EXCEPT !.pc = "downloading", !.constructed = TRUE, !.dispatched = TRUE]
    /\ UNCHANGED <<rm, add, task, jobs, notTask>>

\* api_pool_downloader returns or raises
ContractsDownloaded ==
    /\ ct.pc = "downloading"
    /\ \/ ct' = [ct EXCEPT !.pc = "returned"]
       \/ ct' = [ct EXCEPT !.pc = "raised", !.error = "download"]
    /\ UNCHANGED <<rm, add, task, jobs, notTask>>

(* add_tickers_to_universe, option_bot/orchestrator.py:125-166 *)

\* orchestrator.py:134: the test that ends the batch with InvalidArgs
Uneven(ids, n) == ids # n

\* orchestrator.py:125-131: the tickers of kwargs_list, then the metadata pool
AddCall ==
    /\ Free
    /\ jobs' = jobs + 1
    /\ \E n \in 0..MaxTickers : add' = [NoAdd EXCEPT !.pc = "metadata", !.n = n]
    /\ UNCHANGED <<rm, ct, task, notTask>>

\* orchestrator.py:128-133: pool.map(fetch_stock_metadata, tickers) completed,
\* lookup_multi_ticker_ids(tickers) is awaited
AddMetadataDone ==
    /\ add.pc = "metadata"
    /\ add' = [add EXCEPT !.pc = "lookup", !.dispatched = Append(@, "fetch_stock_metadata")]
    /\ UNCHANGED <<rm, ct, task, jobs, notTask>>

\* orchestrator.py:133: the ids found, possibly fewer than the tickers
AddLookupReturn ==
    /\ add.pc = "lookup"
    /\ \E ids \in 0..add.n : add' = [add EXCEPT !.pc = "check", !.ids = ids]
    /\ UNCHANGED <<rm, ct, task, jobs, notTask>>

\* orchestrator.py:134-138
AddUneven ==
    /\ add.pc = "check"
    /\ Uneven(add.ids, add.n)
    /\ add' = [add EXCEPT !.pc = "raised", !.error = "InvalidArgs"]
    /\ UNCHANGED <<rm, ct, task, jobs, notTask>>

\* orchestrator.py:139-153: pool.starmap(import_tickers_and_contracts_process, args_list)
AddImport ==
    /\ add.pc = "check"
    /\ ~Uneven(add.ids, add.n)
    /\ add' = [add EXCEPT !.pc = "importing",
                           !.dispatched = Append(@, "import_tickers_and_contracts_process")]
    /\ UNCHANGED <<rm, ct, task, jobs, notTask>>

\* orchestrator.py:156: prep_options_prices_args
AddPrep ==
    /\ add.pc = "importing"
    /\ add' = [add EXCEPT !.pc = "prep"]
    /\ UNCHANGED <<rm, ct, task, jobs, notTask>>

\* orchestrator.py:159-166: pool.starmap(fetch_options_prices, op_args)
AddPrices ==
    /\ add.pc = "prep"
    /\ add' = [add EXCEPT !.pc = "pricing", !.dispatched = Append(@, "fetch_options_prices")]
    /\ UNCHANGED <<rm, ct, task, jobs, notTask>>

AddReturn ==
    /\ add.pc = "pricing"
    /\ add' = [add EXCEPT !.pc = "returned"]
    /\ UNCHANGED <<rm, ct, task, jobs, notTask>>

\* an awaited call of the function raises; nothing in it catches
AddAwaitRaises ==
    /\ add.pc \in {"metadata", "lookup", "importing", "prep", "pricing"}
    /\ add' = [add EXCEPT !.pc = "raised", !.error = "await"]
    /\ UNCHANGED <<rm, ct, task, jobs, notTask>>

(* fetch_options_prices (orchestrator.py:317-337), fetch_stock_prices       *)
(* (282-292) and import_tickers_and_contracts_process (211-232)             *)

\* what a constructor, a fetch or a database write may raise: one of
\* planned_exceptions (orchestrator.py:48-55) or any other Exception
ExcKinds == {"planned", "unclassified"}

\* the except clauses around the body of a task: fetch_options_prices has
\* `except planned_exceptions` and `except Exception` (327-333); the other
\* two functions have no try statement
Catches_planned_only(fn, exc) == fn = "fetch_options_prices" /\ exc = "planned"

Catches(fn, exc) == fn = "fetch_options_prices" /\ exc \in {"planned", "unclassified"}

\* orchestrator.py:317 and :282
FetchPricesCall ==
    /\ Free
    /\ jobs' = jobs + 1
    /\ \E fn \in {"fetch_options_prices", "fetch_stock_prices"}, given \in BOOLEAN :
        /\ fn = "fetch_options_prices" => given
        /\ task' = [NoTask EXCEPT !.fn = fn, !.ticker_id = given,
                                   !.pc = IF given THEN "construct" ELSE "lookup_id"]
    /\ UNCHANGED <<rm, ct, add, notTask>>

\* orchestrator.py:283-284: `if not ticker_id:` await lookup_ticker_id
TaskLookupId ==
    /\ task.pc = "lookup_id"
    /\ task' = [task EXCEPT !.pc = "construct", !.ticker_id = TRUE,
                             !.events = Append(@, "lookup_ticker_id")]
    /\ UNCHANGED <<rm, ct, add, jobs, notTask>>

\* orchestrator.py:321 and :287: the paginator of the key is built
TaskConstruct ==
    /\ task.pc = "construct"
    /\ task' = [task EXCEPT !.pc = "fetch", !.events = Append(@, "construct")]
    /\ UNCHANGED <<rm, ct, add, jobs, notTask>>

\* orchestrator.py:322 and :288: await fetch() returned; clean_data_generator
\* will yield some number of batches
TaskFetched ==
    /\ task.pc = "fetch"
    /\ \E n \in 0..MaxBatches :
        task' = [task EXCEPT !.pc = "write", !.batches = n, !.events = Append(@, "fetch")]
    /\ UNCHANGED <<rm, ct, add, jobs, notTask>>

\* orchestrator.py:324-325 and :289-290: one batch is written
TaskWrite_before_fetch ==
    /\ task.pc \in {"fetch", "write"}
    /\ task.written < MaxBatches
    /\ task.pc = "write" => task.written < task.batches
    /\ task' = [task EXCEPT !.written = @ + 1, !.events = Append(@, "write")]
    /\ UNCHANGED <<rm, ct, add, jobs, notTask>>

TaskWrite ==
    /\ task.pc = "write"
    /\ task.written < task.batches
    /\ task' = [task EXCEPT !.written = @ + 1, !.events = Append(@, "write")]
    /\ UNCHANGED <<rm, ct, add, jobs, notTask>>

\* orchestrator.py:291: await ticker_imported(ticker_id)
TaskMarkImported_early ==
    /\ task.fn = "fetch_stock_prices"
    /\ task.pc = "write"
    /\ task' = [task EXCEPT !.pc = "end", !.events = Append(@, "ticker_imported")]
    /\ UNCHANGED <<rm, ct, add, jobs, notTask>>

TaskMarkImported ==
    /\ task.fn = "fetch_stock_prices"
    /\ task.pc = "write"
    /\ task.written = task.batches
    /\ task' = [task EXCEPT !.pc = "end", !.events = Append(@, "ticker_imported")]
    /\ UNCHANGED <<rm, ct, add, jobs, notTask>>

\* the end of the function body
TaskReturn ==
    /\ \/ task.fn = "fetch_options_prices" /\ task.pc = "write" /\ task.written = task.batches
       \/ task.pc = "end"
    /\ task' = [task EXCEPT !.pc = "returned"]
    /\ UNCHANGED <<rm, ct, add, jobs, notTask>>

\* the statement the task is at raises instead of completing: a handler
\* that catches the exception ends the task normally (328, 333), otherwise
\* the exception leaves the task
TaskRaise ==
    /\ \/ task.pc \in {"lookup_id", "construct", "fetch"}
       \/ task.pc = "write" /\ task.written < task.batches
       \/ task.pc = "write" /\ task.fn = "fetch_stock_prices"
    /\ \E exc \in ExcKinds :
        task' = [task EXCEPT !.exc = exc,
                             !.pc = IF Catches(task.fn, exc) THEN "returned" ELSE "raised",
                             !.events = Append(@, "raise")]
    /\ UNCHANGED <<rm, ct, add, jobs, notTask>>

\* orchestrator.py:211-230: the task is entered and the arguments of
\* asyncio.gather are evaluated; fetch_stock_prices(...) gives a coroutine
\* that has not started
ProcessCall ==
    /\ Free
    /\ jobs' = jobs + 1
    /\ task' = [NoTask EXCEPT !.fn = "import_tickers_and_contracts_process",
                               !.pc = "gather_args", !.ticker_id = TRUE]
    /\ UNCHANGED <<rm, ct, add, notTask>>

\* orchestrator.py:231: fetch_options_contracts is called with the keywords
\* ticker and ticker_id, which its signature (300-304: tickers,
\* ticker_id_lookup, months_hist) does not have: the call raises TypeError
\* before gather runs, and the task has no handler
ProcessArgsRaise ==
    /\ task.fn = "import_tickers_and_contracts_process"
    /\ task.pc = "gather_args"
    /\ task' = [task EXCEPT !.exc = "TypeError",
                             !.pc = IF Catches(task.fn, "TypeError") THEN "returned" ELSE "raised",
                             !.events = Append(@, "raise")]
    /\ UNCHANGED <<rm, ct, add, jobs, notTask>>

InitTask == PagParked /\ SleepParked /\ DlParked /\ OrchParked /\ TaskParked

NextTask ==
    \/ RemoveCall
    \/ RemoveAwaitDelete
    \/ RemoveDeleted
    \/ RemoveDeleteRaises
    \/ RemoveReturn
    \/ ContractsCall
    \/ ContractsInvalid
    \/ ContractsFromKeys
    \/ ContractsLookup
    \/ ContractsLookupReturn
    \/ ContractsLookupRaises
    \/ ContractsBothGiven
    \/ ContractsDispatch
    \/ ContractsDownloaded
    \/ AddCall
    \/ AddMetadataDone
    \/ AddLookupReturn
    \/ AddUneven
    \/ AddImport
    \/ AddPrep
    \/ AddPrices
    \/ AddReturn
    \/ AddAwaitRaises
    \/ FetchPricesCall
    \/ TaskLookupId
    \/ TaskConstruct
    \/ TaskFetched
    \/ TaskWrite
    \/ TaskMarkImported
    \/ TaskReturn
    \/ TaskRaise
    \/ ProcessCall
    \/ ProcessArgsRaise

SpecTask == InitTask /\ [][NextTask]_vars

-----------------------------------------------------------------------------
(* Claims about the batch functions and the per-ticker tasks *)

\* C13: when remove_tickers_from_universe has finished, whether or not a
\* delete_stock_ticker call failed, the deletion was attempted for every
\* ticker of the list, and at most the tickers whose deletion failed are
\* reported as failed.
C13_RemovalIsolation ==
    rm.pc \in {"returned", "raised"} =>
        /\ rm.attempted = rm.tickers
        /\ Elems(rm.failed) \cap Elems(rm.deleted) = {}

\* the arguments as the caller gave them
HasTickers == ct.args_tickers.given /\ ct.args_tickers.items # <<>>

HasLookup == ct.args_lookup.given /\ ct.args_lookup.keys # {}

\* C14: once download_options_contracts or fetch_options_contracts is past
\* its argument test: given neither a non-empty tickers list nor a non-empty
\* ticker_id_lookup it has raised InvalidArgs with no lookup made, no
\* paginator built and no downloader called; given tickers only it has
\* called lookup_multi_ticker_ids once with those tickers; given a lookup
\* only it has made no lookup and its tickers are the lookup's keys; given
\* both it has made no lookup and uses both as given. InvalidArgs is raised
\* in the first case only.
C14_ContractsArguments ==
    (ct.fn # "none" /\ ct.pc # "check") =>
        /\ (~HasTickers /\ ~HasLookup) =>
               /\ ct.pc = "raised"
               /\ ct.error = "InvalidArgs"
               /\ ct.lookups = 0
               /\ ~ct.constructed
               /\ ~ct.dispatched
        /\ (HasTickers /\ ~HasLookup) =>
               /\ ct.lookups = 1
               /\ ct.requested = ct.args_tickers.items
               /\ ct.tickers = ct.args_tickers
        /\ (~HasTickers /\ HasLookup) =>
               /\ ct.lookups = 0
               /\ Elems(ct.tickers.items) = ct.args_lookup.keys
               /\ ct.ticker_id_lookup = ct.args_lookup
        /\ (HasTickers /\ HasLookup) =>
               /\ ct.lookups = 0
               /\ ct.tickers = ct.args_tickers
               /\ ct.ticker_id_lookup = ct.args_lookup
        /\ ct.error = "InvalidArgs" => (~HasTickers /\ ~HasLookup)

\* fetch_options_contracts given an empty list and an empty dict raised
\* InvalidArgs before anything else happened
C14_Witness ==
    /\ ct.fn = "fetch_options_contracts"
    /\ ct.args_tickers = [given |-> TRUE, items |-> <<>>]
    /\ ct.args_lookup = [given |-> TRUE, keys |-> {}]
    /\ ct.pc = "raised"
    /\ ct.error = "InvalidArgs"
    /\ ct.lookups = 0

\* C15: whenever lookup_multi_ticker_ids returned fewer identifiers than
\* tickers were requested, the caller has raised and has dispatched no price
\* or contract download: add_tickers_to_universe has run neither the import
\* pool nor the prices pool, and download_options_contracts /
\* fetch_options_contracts has not called api_pool_downloader.
C15_PartialResolutionIsError ==
    /\ (add.pc \in {"importing", "prep", "pricing", "returned", "raised"} /\ add.ids < add.n) =>
           /\ add.pc = "raised"
           /\ Elems(add.dispatched) \subseteq {"fetch_stock_metadata"}
    /\ (/\ ct.pc \in {"ready", "downloading", "returned", "raised"}
        /\ ct.lookups > 0
        /\ Cardinality(ct.resolved) < Len(ct.requested)) =>
           /\ ct.pc = "raised"
           /\ ~ct.dispatched

\* C16: fetch_options_prices never ends by raising: whatever its
\* constructor, its fetch or a database write raised, planned or not, the
\* task returns normally.
C16_OptionPricesTaskIsolated ==
    task.fn = "fetch_options_prices" =>
        /\ task.pc # "raised"
        /\ task.exc # "none" => task.pc = "returned"

\* a database write raised an unclassified exception after one batch was
\* written, and the task returned
C16_Witness ==
    /\ task.fn = "fetch_options_prices"
    /\ task.pc = "returned"
    /\ task.exc = "unclassified"
    /\ task.written = 1
    /\ task.batches = 2

\* C17: no error raised inside import_tickers_and_contracts_process or
\* fetch_stock_prices leaves the task: the task never ends by raising.
C17_StockTaskIsolated ==
    task.fn \in {"import_tickers_and_contracts_process", "fetch_stock_prices"} =>
        task.pc # "raised"

-----------------------------------------------------------------------------
(* Further claims about the orchestrator (SpecOrch) *)

Called(op) == \E k \in 1..Len(trace) : IsCall(trace[k], op, {0})

\* C24: in a partial run pull_tickers_from_db is called only when stage 2 or
\* 3 is selected and generate_o_ticker_lookup only when stage 4, 5 or 6 is;
\* so a run of {1} makes no lookup and a run within 4..6 makes no ticker-id
\* lookup.
C24_LazyLookups ==
    orch.fn = "import_partial" =>
        /\ Called("pull_tickers_from_db") => Selected(orch.partial) \cap {2, 3} # {}
        /\ Called("generate_o_ticker_lookup") => Selected(orch.partial) \cap {4, 5, 6} # {}
        /\ Selected(orch.partial) \cap (1..6) = {1} =>
               \A k \in 1..Len(trace) : trace[k].stage = 1
        /\ Selected(orch.partial) \cap (1..6) \subseteq {4, 5, 6} =>
               ~Called("pull_tickers_from_db")

\* the completed partial run of {1}: the metadata download and upload, no lookup
C24_Witness ==
    /\ orch.fn = "import_partial"
    /\ orch.partial = <<1>>
    /\ orch.status = "done"
    /\ Len(trace) = 4
    /\ \A k \in 1..Len(trace) : trace[k].stage = 1

\* C26: in import_all and in every partial run, each call of the snapshots
\* stage (5), download and upload, is given the result of
\* generate_o_ticker_lookup called with unexpired=True.
C26_SnapshotsUnexpired ==
    \A k \in 1..Len(trace) :
        (trace[k].ev = "call" /\ trace[k].stage = 5) => trace[k].arg.kind = "unexpired"

\* C27: in every partial run that selects stage 6, whichever other stages
\* are selected, each call of the quotes stage is given the full lookup,
\* the result of generate_o_ticker_lookup called without unexpired.
C27_QuotesInputIndependent ==
    orch.fn = "import_partial" =>
        \A k \in 1..Len(trace) :
            (trace[k].ev = "call" /\ trace[k].stage = 6) => trace[k].arg.kind = "full"

-----------------------------------------------------------------------------
(* Further claims about the per-ticker tasks (SpecTask) *)

\* the number of e among the first n events of the task
CountEvents(e, n) == Cardinality({k \in 1..n : task.events[k] = e})

\* C22: in fetch_stock_prices and fetch_options_prices a write is made only
\* after the fetch of the key has returned; when the fetch raised, no write
\* was made.
C22_NoWriteBeforeFetch ==
    task.fn \in {"fetch_stock_prices", "fetch_options_prices"} =>
        /\ \A k \in 1..Len(task.events) :
               task.events[k] = "write" =>
                   \E j \in 1..(k - 1) : task.events[j] = "fetch"
        /\ CountEvents("fetch", Len(task.events)) = 0 => task.written = 0
        /\ CountEvents("write", Len(task.events)) = task.written

\* fetch_options_prices wrote its two batches after the fetch and returned
C22_Witness ==
    /\ task.fn = "fetch_options_prices"
    /\ task.pc = "returned"
    /\ task.events = <<"construct", "fetch", "write", "write">>

\* C23: fetch_stock_prices calls ticker_imported only after the fetch has
\* returned and every batch it yielded was written, and never after
\* anything raised in that call.
C23_ImportedOnlyWhenComplete ==
    task.fn = "fetch_stock_prices" =>
        \A k \in 1..Len(task.events) :
            task.events[k] = "ticker_imported" =>
                /\ CountEvents("fetch", k - 1) = 1
                /\ CountEvents("write", k - 1) = task.batches
                /\ CountEvents("raise", k - 1) = 0
                /\ task.written = task.batches

\* fetch_stock_prices looked its id up, wrote two batches and marked the ticker
C23_Witness ==
    /\ task.fn = "fetch_stock_prices"
    /\ task.pc = "returned"
    /\ task.events = <<"lookup_ticker_id", "construct", "fetch", "write", "write",
                       "ticker_imported">>

-----------------------------------------------------------------------------
(* Further claims about the downloaders (SpecDl) *)

\* C25: in download_options_quotes at most one pool is open at any moment;
\* the chunk in flight is the last one dispatched and holds at most 1000
\* option tickers; whenever the loop is about to dispatch another chunk, the
\* downloader of the previous one has returned with its pool closed; and
\* when a chunk's downloader raised, the function has raised with that
\* chunk as the last one dispatched.
C25_ChunksOneAtATime ==
    quotes.pc # "idle" =>
        /\ dl.pool_open <= 1
        /\ quotes.pc = "await" =>
               /\ dl.args_data = Last(quotes.chunks)
               /\ Len(dl.args_data) <= BATCH_SIZE_OTICKERS
        /\ (quotes.pc \in {"loop", "done"} /\ Len(quotes.chunks) > 0) =>
               /\ dl.pc = "returned"
               /\ dl.pool_open = 0
               /\ Len(quotes.chunks) * BATCH_SIZE_OTICKERS = quotes.i
        /\ quotes.pc = "raised" =>
               /\ dl.pc = "raised"
               /\ dl.pool_open = 0
               /\ (Len(quotes.chunks) - 1) * BATCH_SIZE_OTICKERS = quotes.i

\* the second chunk of 1000 is in flight in the only open pool
C25_Witness ==
    /\ quotes.pc = "await"
    /\ Len(quotes.chunks) = 2
    /\ Len(dl.args_data) = 1000
    /\ dl.pool_open = 1
    /\ dl.pools_created = 1

-----------------------------------------------------------------------------
(* Further claims about the paginator *)

RequestAt == {k \in 1..Len(timeline) : timeline[k].ev = "request"}

\* the sleep that ends at position k started at position j
SleepSpan(j, k) ==
    /\ j < k
    /\ timeline[j].ev = "sleep_start"
    /\ timeline[k].ev = "sleep_end"
    /\ timeline[j].chain = timeline[k].chain
    /\ \A m \in (j + 1)..(k - 1) : timeline[m].chain # timeline[k].chain

\* C28: on one paginator instance used by several chains, between the
\* first and the last of any MAX_QUERY_PER_MINUTE + 1 consecutive requests
\* some sleep both started and ended; and no request was issued by another
\* chain during a sleep without a later reset before that sleep's own reset,
\* so the reset after a sleep erases no record another chain made meanwhile.
C28_ThrottleUnderInterleaving ==
    /\ \A a, b \in RequestAt :
           (a < b /\ Cardinality({r \in RequestAt : a <= r /\ r <= b})
                        = MAX_QUERY_PER_MINUTE + 1) =>
               \E j, k \in (a + 1)..(b - 1) : SleepSpan(j, k)
    /\ \A j, k \in 1..Len(timeline) :
           SleepSpan(j, k) =>
               \A p \in (j + 1)..(k - 1) :
                   timeline[p].ev = "request" =>
                       \E q \in (p + 1)..(k - 1) : timeline[q].ev = "sleep_end"

====
